---- MODULE Spec2Model ----
(***************************************************************************)
(* Model of the WASAPI loopback capture pipeline of                        *)
(* windows/runner/audio_capture.cpp: the AudioCapture object (start, stop, *)
(* pull, destruction), its capture thread, the audio device it talks to,   *)
(* and the byte deque the two sides share under frames_mutex_.             *)
(*                                                                         *)
(* A byte of the deque is identified by the hardware packet it was encoded *)
(* from and its offset in that packet's output, and the deque is kept as a *)
(* sequence of runs <<p, lo, hi>> (bytes lo..hi of packet p), so the       *)
(* 64000-byte cap is modelled at its real size.                            *)
(***************************************************************************)
EXTENDS Integers, Sequences, FiniteSets, TLC

\* ---------------------------------------------------------------- bounds
MaxStarts == 2        \* StartSystemAudio calls over the object's life
MaxPackets == 2       \* packets the device delivers
MaxPulls == 2         \* GetSystemAudioFrame calls
MaxConvFrames == 2    \* frames of a packet followed through the conversion

\* ------------------------------------------------------ program constants
Capacity == 64000     \* audio_capture.cpp:403
TargetRate == 16000   \* audio_capture.cpp:390
DefaultPull == 1280   \* flutter_window.cpp:77

\* Every start spawns at most one std::thread (audio_capture.cpp:161).
Threads == 1..MaxStarts
NoThread == 0

\* Frame counts of the packets the device delivers, and the byte counts
\* callers ask for (0, the binding layer's default, more than the cap).
FrameChoices == {480, 105000}
PullSizes == {0, DefaultPull, 70000}

\* The mix format GetMixFormat reports (audio_capture.cpp:254): the shared-mode
\* engine's 48 kHz stereo float, for which 105000 frames encode to 70000 bytes.
Formats ==
  { [tag |-> "float", bits |-> 32, nChannels |-> 2, nSamplesPerSec |-> 48000, nBlockAlign |-> 8] }
NoFormat == [tag |-> "none", bits |-> 0, nChannels |-> 0, nSamplesPerSec |-> 0, nBlockAlign |-> 0]

\* The members of AudioCapture that hold a device resource (audio_capture.h:28-33).
Kinds == {"device_enumerator_", "loopback_device_", "audio_client_",
          "capture_client_", "capture_format_", "audio_event_"}

Max(a, b) == IF a > b THEN a ELSE b
Min(a, b) == IF a < b THEN a ELSE b

VARIABLES
  is_capturing_,    \* bool member
  is_initialized_,  \* bool member
  ptr,              \* Kinds -> BOOLEAN: the member is non-null
  held,             \* Kinds -> Nat: acquisitions of that kind not yet released
  fmt,              \* what capture_format_ points to
  capture_thread_,  \* the thread the member points to, or NoThread
  audio_bytes_,     \* the deque, as runs
  mutex,            \* holder of frames_mutex_: a capture thread, or NoThread
  thr,              \* Threads -> [pc, pkt, frames, outLen]
  joined,           \* threads that were joined and deleted
  hwRunning,        \* the audio client's stream is started
  pending,          \* packets queued in the device, oldest first
  evt,              \* audio_event_ is signalled (auto-reset event)
  bufOwner,         \* thread with a GetBuffer not yet released
  delivered,        \* packets delivered so far
  ctl,              \* where the controlling caller is
  ret,              \* where StopSystemAudio returns to
  startResult,      \* how the latest StartSystemAudio ended
  initFailures,     \* failed InitializeWASAPI calls so far
  lastPull,         \* bytes returned by the latest pull, as runs
  prevHi,           \* newest byte returned before the latest pull
  pulledHi,         \* newest byte returned by any pull
  pulls,            \* pulls so far
  conv              \* one packet on its way through the conversion chain

vars == <<is_capturing_, is_initialized_, ptr, held, fmt, capture_thread_,
          audio_bytes_, mutex, thr, joined, hwRunning, pending, evt, bufOwner,
          delivered, ctl, ret, startResult, initFailures, lastPull, prevHi,
          pulledHi, pulls, conv>>

objVars == <<is_initialized_, ptr, held, fmt>>
devVars == <<hwRunning, pending, evt, bufOwner, delivered>>
pullVars == <<lastPull, prevHi, pulledHi, pulls>>

\* ------------------------------------------------------------ byte runs
RECURSIVE RunsLen(_)
RunsLen(rs) == IF rs = <<>> THEN 0
               ELSE (rs[1][3] - rs[1][2] + 1) + RunsLen(Tail(rs))

\* std::deque::push_back of bytes lo..hi of packet p, one after the other.
PushBack(rs, p, lo, hi) ==
  IF hi < lo THEN rs
  ELSE IF rs # <<>> /\ rs[Len(rs)][1] = p /\ rs[Len(rs)][3] + 1 = lo
       THEN [rs EXCEPT ![Len(rs)] = <<p, rs[Len(rs)][2], hi>>]
       ELSE Append(rs, <<p, lo, hi>>)

\* n times std::deque::pop_front.
RECURSIVE PopFront(_, _)
PopFront(rs, n) ==
  IF n <= 0 \/ rs = <<>> THEN rs
  ELSE LET w == rs[1][3] - rs[1][2] + 1
       IN IF n >= w THEN PopFront(Tail(rs), n - w)
          ELSE <<<<rs[1][1], rs[1][2] + n, rs[1][3]>>>> \o Tail(rs)

\* The bytes the first n pop_front calls hand over, in that order.
RECURSIVE Front(_, _)
Front(rs, n) ==
  IF n <= 0 \/ rs = <<>> THEN <<>>
  ELSE LET w == rs[1][3] - rs[1][2] + 1
       IN IF n >= w THEN <<rs[1]>> \o Front(Tail(rs), n - w)
          ELSE <<<<rs[1][1], rs[1][2], rs[1][2] + n - 1>>>>

\* a < b for bytes <<packet, offset>>: hardware delivery order.
Older(a, b) == a[1] < b[1] \/ (a[1] = b[1] /\ a[2] < b[2])

\* Evict without its loop: the deque is never capped.
EvictNever(rs) == rs

\* Evict popping at the wrong end: the newest bytes go, the oldest stay.
EvictNewest(rs) == Front(rs, Min(RunsLen(rs), Capacity))

\* The loop at audio_capture.cpp:403-405.
Evict(rs) ==
  IF RunsLen(rs) > Capacity THEN PopFront(rs, RunsLen(rs) - Capacity) ELSE rs

\* ------------------------------------------------- double arithmetic
\* ResampleLinear computes its output length in double (lines 107-108). A
\* positive double is kept as [m, e]: its significand as bits, most
\* significant first and starting with 1, at most MantBits of them, and the
\* exponent of the last bit; its value is ValueOf(m) * 2^e.
MantBits == 53

\* The bits of n, without leading zeros (n < 2^31).
BitsOf(n) ==
  LET len == CHOOSE l \in 0..31 :
               IF l = 0 THEN n = 0
               ELSE 2^(l - 1) <= n /\ (l = 31 \/ n < 2^l)
  IN [i \in 1..len |-> (n \div 2^(len - i)) % 2]

\* The number that at most 31 bits spell.
RECURSIVE ValueOf(_)
ValueOf(b) ==
  IF b = <<>> THEN 0
  ELSE IF Len(b) = 1 THEN b[1]
  ELSE LET h == Len(b) \div 2
       IN ValueOf(SubSeq(b, 1, h)) * 2^(Len(b) - h) + ValueOf(SubSeq(b, h + 1, Len(b)))

\* b + 1 on bits.
IncBits(b) ==
  LET zeros == {i \in 1..Len(b) : b[i] = 0}
  IN IF zeros = {} THEN <<1>> \o [i \in 1..Len(b) |-> 0]
     ELSE LET k == CHOOSE i \in zeros : \A j \in zeros : j <= i
          IN [i \in 1..Len(b) |-> IF i < k THEN b[i] ELSE IF i = k THEN 1 ELSE 0]

\* Round to nearest, ties to even: bits (starting with 1) with last-bit
\* exponent e, followed by a non-zero tail when sticky, as a double.
DblRound(bits, sticky, e) ==
  IF Len(bits) <= MantBits THEN [m |-> bits, e |-> e]
  ELSE LET keep == SubSeq(bits, 1, MantBits)
           guard == bits[MantBits + 1]
           rest == sticky \/ \E i \in (MantBits + 2)..Len(bits) : bits[i] = 1
           up == guard = 1 /\ (rest \/ keep[MantBits] = 1)
           r == IF up THEN IncBits(keep) ELSE keep
           e1 == e + (Len(bits) - MantBits)
       IN IF Len(r) > MantBits
          THEN [m |-> SubSeq(r, 1, MantBits), e |-> e1 + 1]
          ELSE [m |-> r, e |-> e1]

\* The first k bits of r / b after the binary point (r < b), and what is
\* left of r: long division, the first half of the bits and then the rest.
RECURSIVE FracBits(_, _, _)
FracBits(r, b, k) ==
  IF k = 0 THEN [bits |-> <<>>, rem |-> r]
  ELSE IF k = 1
  THEN IF 2 * r >= b THEN [bits |-> <<1>>, rem |-> 2 * r - b]
       ELSE [bits |-> <<0>>, rem |-> 2 * r]
  ELSE LET hi == FracBits(r, b, k \div 2)
           lo == FracBits(hi.rem, b, k - k \div 2)
       IN [bits |-> hi.bits \o lo.bits, rem |-> lo.rem]

\* The zero bits of a / b between the binary point and its first 1 (a < b).
RECURSIVE LeadingZeros(_, _)
LeadingZeros(a, b) == IF 2 * a >= b THEN 0 ELSE 1 + LeadingZeros(2 * a, b)

\* static_cast<double>(a) / static_cast<double>(b) for integers a, b > 0.
DblDiv(a, b) ==
  LET ib == BitsOf(a \div b)
      z == IF ib = <<>> THEN LeadingZeros(a % b, b) ELSE 0
      k == z + MantBits + 1 - Len(ib)
      fr == FracBits(a % b, b, k)
  IN DblRound(ib \o SubSeq(fr.bits, z + 1, k), fr.rem # 0, -k)

\* bits * n + carry as Len(b) bits and the carry out of them: the low half
\* of the bits first, its carry into the high half.
RECURSIVE MulBits(_, _, _)
MulBits(b, n, carry) ==
  IF b = <<>> THEN [bits |-> <<>>, carry |-> carry]
  ELSE IF Len(b) = 1
  THEN [bits |-> <<(b[1] * n + carry) % 2>>, carry |-> (b[1] * n + carry) \div 2]
  ELSE LET h == Len(b) \div 2
           lo == MulBits(SubSeq(b, h + 1, Len(b)), n, carry)
           hi == MulBits(SubSeq(b, 1, h), n, lo.carry)
       IN IF lo.carry < 0 THEN lo
          ELSE [bits |-> hi.bits \o lo.bits, carry |-> hi.carry]

\* static_cast<double>(n) * x for an integer n > 0.
DblMulInt(n, x) ==
  LET p == MulBits(x.m, n, 0)
  IN DblRound(BitsOf(p.carry) \o p.bits, FALSE, x.e)

\* std::floor(x) as an integer.
DblFloor(x) ==
  IF x.e >= 0 THEN ValueOf(x.m \o [i \in 1..x.e |-> 0])
  ELSE IF Len(x.m) + x.e <= 0 THEN 0
  ELSE ValueOf(SubSeq(x.m, 1, Len(x.m) + x.e))

\* outCount of ResampleLinear, lines 107-108.
ResampleOutCount(n, inRate, outRate) ==
  Max(1, DblFloor(DblMulInt(n, DblDiv(outRate, inRate))))

\* ------------------------------------------------- the conversion chain
\* A float sample is kept as the exact fraction <<n, d>> it stands for, in
\* lowest terms with d > 0. The packets followed through the chain hold
\* finite samples and rates for which every float and double operation of
\* the chain is exact, so the fractions are the floats.
RECURSIVE GCD(_, _)
GCD(a, b) == IF b = 0 THEN a ELSE GCD(b, a % b)

Abs(x) == IF x < 0 THEN -x ELSE x

Frac(n, d) == LET g == GCD(Abs(n), d) IN <<n \div g, d \div g>>

FracAdd(x, y) ==
  LET l == (x[2] \div GCD(x[2], y[2])) * y[2]
  IN Frac(x[1] * (l \div x[2]) + y[1] * (l \div y[2]), l)

FracMul(x, y) == Frac(x[1] * y[1], x[2] * y[2])

FracLess(x, y) ==
  LET l == (x[2] \div GCD(x[2], y[2])) * y[2]
  IN x[1] * (l \div x[2]) < y[1] * (l \div y[2])

RECURSIVE FracSum(_)
FracSum(xs) == IF xs = <<>> THEN <<0, 1>> ELSE FracAdd(xs[1], FracSum(Tail(xs)))

RECURSIVE IntSum(_)
IntSum(xs) == IF xs = <<>> THEN 0 ELSE xs[1] + IntSum(Tail(xs))

\* IsFloatFormat, lines 15-25.
IsFloatFormat(f) ==
  \/ f.tag = "float" /\ f.bits = 32
  \/ f.tag = "extensible" /\ f.sub = "float" /\ f.bits = 32

\* IsPcm16Format with the test of wBitsPerSample left out.
IsPcm16FormatAnyBits(f) ==
  \/ f.tag = "pcm"
  \/ f.tag = "extensible" /\ f.sub = "pcm"

\* IsPcm16Format, lines 27-37.
IsPcm16Format(f) ==
  \/ f.tag = "pcm" /\ f.bits = 16
  \/ f.tag = "extensible" /\ f.sub = "pcm" /\ f.bits = 16

\* ToMonoFloat on the frames of input (one sequence of channel samples per
\* frame): what it returns and outMono afterwards, lines 54-93.
ToMonoFloat(f, input, frames) ==
  IF f = NoFormat \/ frames = 0 THEN [ok |-> FALSE, outMono |-> <<>>]
  ELSE IF f.nChannels = 0 THEN [ok |-> FALSE, outMono |-> <<>>]
  ELSE IF IsFloatFormat(f)
  THEN [ok |-> TRUE,
        outMono |-> [i \in 1..frames |->
                      FracMul(FracSum(SubSeq(input[i], 1, f.nChannels)),
                              <<1, f.nChannels>>)]]
  ELSE IF IsPcm16Format(f)
  THEN [ok |-> TRUE,
        outMono |-> [i \in 1..frames |->
                      Frac(IntSum(SubSeq(input[i], 1, f.nChannels)),
                           f.nChannels * 32768)]]
  ELSE [ok |-> TRUE, outMono |-> [i \in 1..frames |-> <<0, 1>>]]

\* ResampleLinear: outMono afterwards, lines 96-120. Indices are 0-based in
\* the code and 1-based here.
ResampleLinear(inMono, inRate, outRate) ==
  IF inMono = <<>> \/ inRate = 0 \/ outRate = 0 THEN <<>>
  ELSE IF inRate = outRate THEN inMono
  ELSE [k \in 1..ResampleOutCount(Len(inMono), inRate, outRate) |->
          LET j == k - 1
              i0 == (j * inRate) \div outRate
              i1 == IF i0 + 1 < Len(inMono) THEN i0 + 1 ELSE i0
              frac == Frac((j * inRate) % outRate, outRate)
              rest == Frac(outRate - ((j * inRate) % outRate), outRate)
          IN FracAdd(FracMul(rest, inMono[i0 + 1]), FracMul(frac, inMono[i1 + 1]))]

\* ClampFloat, lines 39-43.
ClampFloat(v) ==
  IF FracLess(v, <<-1, 1>>) THEN <<-1, 1>>
  ELSE IF FracLess(<<1, 1>>, v) THEN <<1, 1>>
  ELSE v

FltMantBits == 24

\* Round to nearest, ties to even, as a float: bits (starting with 1) with
\* last-bit exponent e.
FltRound(bits, e) ==
  IF Len(bits) <= FltMantBits THEN [m |-> bits, e |-> e]
  ELSE LET keep == SubSeq(bits, 1, FltMantBits)
           guard == bits[FltMantBits + 1]
           rest == \E i \in (FltMantBits + 2)..Len(bits) : bits[i] = 1
           up == guard = 1 /\ (rest \/ keep[FltMantBits] = 1)
           r == IF up THEN IncBits(keep) ELSE keep
           e1 == e + (Len(bits) - FltMantBits)
       IN IF Len(r) > FltMantBits
          THEN [m |-> SubSeq(r, 1, FltMantBits), e |-> e1 + 1]
          ELSE [m |-> r, e |-> e1]

\* static_cast<int16_t>(v * 32767.0f) for the float v = a / d, 0 <= a <= d,
\* d a power of two: the float product, then the cast towards zero.
ScaledInt(a, d) ==
  IF a = 0 THEN 0
  ELSE LET p == MulBits(BitsOf(a), 32767, 0)
       IN DblFloor(FltRound(BitsOf(p.carry) \o p.bits, 1 - Len(BitsOf(d))))

\* FloatToPcm16 with neither clamp: the cast of an outlying value wraps.
FloatToPcm16Wrapping(v) ==
  IF FracLess(v, <<-1, 1>>) \/ FracLess(<<1, 1>>, v)
  THEN ((((v[1] * 32767) \div v[2]) + 32768) % 65536) - 32768
  ELSE IF v[1] >= 0 THEN ScaledInt(v[1], v[2]) ELSE -ScaledInt(-v[1], v[2])

\* FloatToPcm16, lines 45-51: after the clamp the product is within
\* [-32767, 32767], so neither test of scaled fires.
FloatToPcm16(v) ==
  LET c == ClampFloat(v)
  IN IF c[1] >= 0 THEN ScaledInt(c[1], c[2]) ELSE -ScaledInt(-c[1], c[2])

\* MonoFloatToPcm16Bytes: outBytes afterwards, lines 122-131.
MonoFloatToPcm16Bytes(inMono) ==
  [k \in 1..(Len(inMono) * 2) |->
     LET s == FloatToPcm16(inMono[(k + 1) \div 2])
     IN IF k % 2 = 1 THEN s % 256 ELSE (s \div 256) % 256]

\* ------------------------------------------- sizes of the conversion chain
\* ToMonoFloat: whether it returns true, and outMono.size() afterwards.
ToMonoFloatSize(f, frames) ==
  IF f = NoFormat \/ frames = 0 THEN [ok |-> FALSE, n |-> 0]
  ELSE IF f.nChannels = 0 THEN [ok |-> FALSE, n |-> 0]
  ELSE [ok |-> TRUE, n |-> frames]

\* ResampleLinear: outMono.size() afterwards.
ResampleLinearSize(n, inRate, outRate) ==
  IF n = 0 \/ inRate = 0 \/ outRate = 0 THEN 0
  ELSE IF inRate = outRate THEN n
  ELSE ResampleOutCount(n, inRate, outRate)

\* MonoFloatToPcm16BytesSize with a padding byte after the samples.
MonoFloatToPcm16BytesSizePadded(n) == n * 2 + 1

\* MonoFloatToPcm16Bytes: outBytes.size() afterwards.
MonoFloatToPcm16BytesSize(n) == n * 2

\* outPcm16.size() for a packet of frames_read frames (lines 373-392).
OutPcm16Size(f, frames) ==
  LET bytes_available == frames * f.nBlockAlign
      mono == ToMonoFloatSize(f, frames)
  IN IF bytes_available > 0 /\ mono.ok
     THEN MonoFloatToPcm16BytesSize(
            ResampleLinearSize(mono.n, f.nSamplesPerSec, TargetRate))
     ELSE 0

\* OutPcm16Size of every packet the device can deliver, computed once.
PacketBytes ==
  [f \in Formats, frames \in FrameChoices \cup {0} |-> OutPcm16Size(f, frames)]

\* --------------------------------------------------------- initialization
\* One COM call that hands out a resource through an out-parameter: the
\* member is overwritten, with null on failure.
Acquire(s, k, fails) ==
  IF fails THEN [s EXCEPT !.ptr[k] = FALSE]
  ELSE [s EXCEPT !.ptr[k] = TRUE, !.held[k] = @ + 1]

\* The steps of InitializeWASAPI that can fail, in program order:
\* 1 CoCreateInstance, 2 FindLoopbackDevice, 3 Activate, 4 GetMixFormat,
\* 5 Initialize, 6 CreateEvent, 7 SetEventHandle, 8 GetService.
InitSteps == 1..8

\* InitializeWASAPI without its FAILED(hr) returns: every step is attempted
\* and the function reports success whatever the device answered.
InitializeWASAPIUnchecked(s, failAt, f) ==
  LET s1 == Acquire(s, "device_enumerator_", failAt = 1)
      s2 == Acquire(s1, "loopback_device_", failAt = 2)
      s3 == Acquire(s2, "audio_client_", failAt = 3)
      s4 == IF failAt = 4 THEN Acquire(s3, "capture_format_", TRUE)
            ELSE [Acquire(s3, "capture_format_", FALSE) EXCEPT !.fmt = f]
      s6 == Acquire(s4, "audio_event_", failAt = 6)
      s8 == Acquire(s6, "capture_client_", failAt = 8)
  IN [ok |-> TRUE, ptr |-> s8.ptr, held |-> s8.held, fmt |-> s8.fmt]

\* InitializeWASAPI on object state s = [ptr, held, fmt], where the device
\* fails step failAt (0: none) and reports mix format f.
InitializeWASAPI(s, failAt, f) ==
  LET s1 == Acquire(s, "device_enumerator_", failAt = 1)
      s2 == Acquire(s1, "loopback_device_", failAt = 2)
      s3 == Acquire(s2, "audio_client_", failAt = 3)
      s3f == IF s3.ptr["capture_format_"]
             THEN [s3 EXCEPT !.ptr["capture_format_"] = FALSE,
                             !.held["capture_format_"] = @ - 1,
                             !.fmt = NoFormat]
             ELSE s3
      s4 == IF failAt = 4 THEN Acquire(s3f, "capture_format_", TRUE)
            ELSE [Acquire(s3f, "capture_format_", FALSE) EXCEPT !.fmt = f]
      s6 == IF s4.ptr["audio_event_"] THEN s4
            ELSE Acquire(s4, "audio_event_", failAt = 6)
      s8 == Acquire(s6, "capture_client_", failAt = 8)
      res(ok, t) == [ok |-> ok, ptr |-> t.ptr, held |-> t.held, fmt |-> t.fmt]
  IN IF failAt = 1 THEN res(FALSE, s1)
     ELSE IF failAt = 2 THEN res(FALSE, s2)
     ELSE IF failAt = 3 THEN res(FALSE, s3)
     ELSE IF failAt = 4 THEN res(FALSE, s4)
     ELSE IF failAt = 5 THEN res(FALSE, s4)
     ELSE IF failAt = 7 \/ ~s6.ptr["audio_event_"] THEN res(FALSE, s6)
     ELSE IF failAt = 8 THEN res(FALSE, s8)
     ELSE res(TRUE, s8)

\* ------------------------------------------------------------- threads
Spawned == {t \in Threads : thr[t].pc # "none"}
Alive == {t \in Threads : thr[t].pc \notin {"none", "done"}}
IdleThread == [pc |-> "none", pkt |-> 0, frames |-> 0, outLen |-> 0]

TypeOK ==
  /\ is_capturing_ \in BOOLEAN /\ is_initialized_ \in BOOLEAN
  /\ ptr \in [Kinds -> BOOLEAN] /\ held \in [Kinds -> Nat]
  /\ fmt \in Formats \cup {NoFormat}
  /\ capture_thread_ \in Threads \cup {NoThread}
  /\ mutex \in Threads \cup {NoThread}
  /\ \A t \in Threads :
       thr[t].pc \in {"none", "loop", "wait", "size", "getbuf", "append",
                      "evict", "release", "done"}
  /\ joined \subseteq Threads
  /\ hwRunning \in BOOLEAN /\ evt \in BOOLEAN
  /\ bufOwner \in Threads \cup {NoThread}
  /\ delivered \in 0..MaxPackets /\ pulls \in 0..MaxPulls
  /\ ctl \in {"idle", "start_client", "start_join", "stop_client", "stop_join",
              "dtor_cleanup", "cleanup_release", "destroyed"}
  /\ ret \in {"idle", "dtor_cleanup", "cleanup_release"}
  /\ startResult \in {"none", "pending", "true", "init_failed", "no_event",
                      "client_failed"}

\* The AudioCapture object after its constructor (lines 135-137), with the
\* device idle and nothing pulled yet.
Constructed ==
  /\ is_capturing_ = FALSE /\ is_initialized_ = FALSE
  /\ ptr = [k \in Kinds |-> FALSE]
  /\ held = [k \in Kinds |-> 0]
  /\ fmt = NoFormat
  /\ capture_thread_ = NoThread
  /\ audio_bytes_ = <<>>
  /\ mutex = NoThread
  /\ thr = [t \in Threads |-> IdleThread]
  /\ joined = {}
  /\ hwRunning = FALSE /\ pending = <<>> /\ evt = FALSE
  /\ bufOwner = NoThread /\ delivered = 0
  /\ ctl = "idle" /\ ret = "idle" /\ startResult = "none"
  /\ initFailures = 0
  /\ lastPull = <<>> /\ prevHi = <<0, 0>> /\ pulledHi = <<0, 0>> /\ pulls = 0

\* The packet followed through the conversion chain, and none.
NoConv(stage, f, frames) ==
  [stage |-> stage, f |-> f, frames |-> frames, buffer |-> <<>>,
   silent |-> FALSE, raw |-> <<>>, ok |-> FALSE, mono |-> <<>>,
   mono16k |-> <<>>, outPcm16 |-> <<>>, outLen |-> 0]

\* No packet is followed through the conversion chain.
NoPacket == NoConv("none", NoFormat, 0)

Init ==
  /\ Constructed
  /\ conv = NoPacket

\* ------------------------------------------------- the controlling caller
\* StartSystemAudio, lines 144-161: lazy initialization, the event check,
\* the flag, and the new std::thread. The device decides whether and where
\* initialization fails and which mix format it reports.
StartSystemAudio ==
  /\ ctl = "idle"
  /\ Cardinality(Spawned) + initFailures < MaxStarts
  /\ \E failAt \in {0} \cup InitSteps, f \in Formats :
       LET r == IF is_initialized_
                THEN [ok |-> TRUE, ptr |-> ptr, held |-> held, fmt |-> fmt]
                ELSE InitializeWASAPI([ptr |-> ptr, held |-> held, fmt |-> fmt],
                                      failAt, f)
           t == Cardinality(Spawned) + 1
       IN /\ is_initialized_ => failAt = 0 /\ f = CHOOSE g \in Formats : TRUE
          /\ ptr' = r.ptr /\ held' = r.held /\ fmt' = r.fmt
          /\ IF ~r.ok
             THEN /\ startResult' = "init_failed"
                  /\ initFailures' = initFailures + 1
                  /\ UNCHANGED <<is_initialized_, is_capturing_, capture_thread_,
                                 thr, ctl>>
             ELSE IF ~r.ptr["audio_event_"]
             THEN /\ is_initialized_' = TRUE
                  /\ startResult' = "no_event"
                  /\ UNCHANGED <<is_capturing_, capture_thread_, thr, ctl,
                                 initFailures>>
             ELSE /\ is_initialized_' = TRUE
                  /\ is_capturing_' = TRUE
                  /\ thr' = [thr EXCEPT ![t] = [IdleThread EXCEPT !.pc = "loop"]]
                  /\ capture_thread_' = t
                  /\ ctl' = "start_client"
                  /\ startResult' = "pending"
                  /\ UNCHANGED initFailures
  /\ UNCHANGED <<audio_bytes_, mutex, joined, ret>>
  /\ UNCHANGED devVars /\ UNCHANGED pullVars
  /\ UNCHANGED conv

\* IAudioClient::Start: fails on a stream that is already started
\* (AUDCLNT_E_NOT_STOPPED), and may fail for the device's own reasons.
ClientStartResults == {"S_OK", "E_FAIL"}

\* StartSystemAudio, lines 163-165 and 174-175.
StartClient ==
  /\ ctl = "start_client"
  /\ \E hr \in ClientStartResults :
       IF hr = "S_OK" /\ ~hwRunning
       THEN /\ hwRunning' = TRUE
            /\ ctl' = "idle"
            /\ startResult' = "true"
            /\ UNCHANGED is_capturing_
       ELSE /\ is_capturing_' = FALSE
            /\ ctl' = "start_join"
            /\ UNCHANGED <<hwRunning, startResult>>
  /\ UNCHANGED <<capture_thread_, audio_bytes_, mutex, thr, joined, pending,
                 evt, bufOwner, delivered, ret, initFailures>>
  /\ UNCHANGED objVars /\ UNCHANGED pullVars
  /\ UNCHANGED conv

\* if (capture_thread_) { join; delete; = nullptr; }: join returns once the
\* thread has left CaptureThreadProc (lines 166-170 and 187-191).
JoinCaptureThread ==
  IF capture_thread_ # NoThread
  THEN /\ thr[capture_thread_].pc = "done"
       /\ joined' = joined \cup {capture_thread_}
       /\ capture_thread_' = NoThread
  ELSE UNCHANGED <<joined, capture_thread_>>

\* StartSystemAudio, lines 166-171.
StartJoin ==
  /\ ctl = "start_join"
  /\ JoinCaptureThread
  /\ ctl' = "idle"
  /\ startResult' = "client_failed"
  /\ UNCHANGED <<is_capturing_, audio_bytes_, mutex, thr, ret, initFailures>>
  /\ UNCHANGED objVars /\ UNCHANGED devVars /\ UNCHANGED pullVars
  /\ UNCHANGED conv

\* StopEnter without its test of the flag: every call clears the flag and
\* goes on to IAudioClient::Stop and the join.
StopEnterAlways(r) ==
  /\ is_capturing_' = FALSE
  /\ ctl' = "stop_client"
  /\ ret' = r
  /\ UNCHANGED <<capture_thread_, audio_bytes_, mutex, thr, joined,
                 startResult, initFailures>>
  /\ UNCHANGED objVars /\ UNCHANGED devVars /\ UNCHANGED pullVars
  /\ UNCHANGED conv

\* StopSystemAudio, lines 179-181, called with continuation r: the test of
\* the flag and its clearing; when the flag is down the call is over.
StopEnter(r) ==
  /\ IF is_capturing_
     THEN /\ is_capturing_' = FALSE
          /\ ctl' = "stop_client"
          /\ ret' = r
     ELSE /\ ctl' = r
          /\ UNCHANGED <<is_capturing_, ret>>
  /\ UNCHANGED <<capture_thread_, audio_bytes_, mutex, thr, joined,
                 startResult, initFailures>>
  /\ UNCHANGED objVars /\ UNCHANGED devVars /\ UNCHANGED pullVars
  /\ UNCHANGED conv

\* A caller's StopSystemAudio.
StopSystemAudio ==
  /\ ctl = "idle"
  /\ StopEnter("idle")

\* StopSystemAudio, lines 183-185: IAudioClient::Stop.
StopClient ==
  /\ ctl = "stop_client"
  /\ hwRunning' = (IF ptr["audio_client_"] THEN FALSE ELSE hwRunning)
  /\ ctl' = "stop_join"
  /\ UNCHANGED <<is_capturing_, capture_thread_, audio_bytes_, mutex, thr,
                 joined, pending, evt, bufOwner, delivered, ret, startResult,
                 initFailures>>
  /\ UNCHANGED objVars /\ UNCHANGED pullVars
  /\ UNCHANGED conv

\* StopSystemAudio, lines 187-192.
StopJoin ==
  /\ ctl = "stop_join"
  /\ JoinCaptureThread
  /\ ctl' = ret
  /\ ret' = "idle"
  /\ UNCHANGED <<is_capturing_, audio_bytes_, mutex, thr, startResult,
                 initFailures>>
  /\ UNCHANGED objVars /\ UNCHANGED devVars /\ UNCHANGED pullVars
  /\ UNCHANGED conv

\* ~AudioCapture, line 140: its StopSystemAudio.
Destructor ==
  /\ ctl = "idle"
  /\ StopEnter("dtor_cleanup")

\* CleanupWASAPI, line 299: its StopSystemAudio.
CleanupStop ==
  /\ ctl = "dtor_cleanup"
  /\ StopEnter("cleanup_release")

\* CleanupWASAPI, lines 301-331: every non-null member is released and nulled.
CleanupWASAPI ==
  /\ ctl = "cleanup_release"
  /\ held' = [k \in Kinds |-> IF ptr[k] THEN held[k] - 1 ELSE held[k]]
  /\ ptr' = [k \in Kinds |-> FALSE]
  /\ fmt' = NoFormat
  /\ hwRunning' = (IF ptr["audio_client_"] THEN FALSE ELSE hwRunning)
  /\ ctl' = "destroyed"
  /\ UNCHANGED <<is_capturing_, is_initialized_, capture_thread_, audio_bytes_,
                 mutex, thr, joined, pending, evt, bufOwner, delivered, ret,
                 startResult, initFailures>>
  /\ UNCHANGED pullVars
  /\ UNCHANGED conv

\* ------------------------------------------------------------ the device
\* The endpoint hands a packet of frames to the started stream and signals
\* the event registered with SetEventHandle.
DeviceDeliver ==
  /\ hwRunning
  /\ delivered < MaxPackets
  /\ \E frames \in FrameChoices :
       pending' = Append(pending, [id |-> delivered + 1, frames |-> frames])
  /\ delivered' = delivered + 1
  /\ evt' = TRUE
  /\ UNCHANGED <<is_capturing_, capture_thread_, audio_bytes_, mutex, thr,
                 joined, hwRunning, bufOwner, ctl, ret, startResult,
                 initFailures>>
  /\ UNCHANGED objVars /\ UNCHANGED pullVars
  /\ UNCHANGED conv

\* ---------------------------------------------------- CaptureThreadProc
ThreadFrame == <<is_capturing_, capture_thread_, joined, ctl, ret, startResult,
                 initFailures>>

\* while (is_capturing_), line 353, and the fall out of the loop.
ThreadCheck(t) ==
  /\ thr[t].pc = "loop"
  /\ thr' = [thr EXCEPT ![t].pc = IF is_capturing_ THEN "wait" ELSE "done"]
  /\ UNCHANGED <<audio_bytes_, mutex>>
  /\ UNCHANGED ThreadFrame /\ UNCHANGED objVars /\ UNCHANGED devVars
  /\ UNCHANGED pullVars
  /\ UNCHANGED conv

\* WaitForSingleObject, lines 354-356: WAIT_OBJECT_0 on a signalled event,
\* which auto-resets; otherwise the 10 s timeout ends the wait.
ThreadWait(t) ==
  /\ thr[t].pc = "wait"
  /\ thr' = [thr EXCEPT ![t].pc = IF evt THEN "size" ELSE "loop"]
  /\ evt' = FALSE
  /\ UNCHANGED <<audio_bytes_, mutex, hwRunning, pending, bufOwner, delivered>>
  /\ UNCHANGED ThreadFrame /\ UNCHANGED objVars /\ UNCHANGED pullVars
  /\ UNCHANGED conv

HResults == {"S_OK", "E_FAIL"}

\* The inner loop's test, lines 359-360: GetNextPacketSize reports the
\* frames of the next queued packet, 0 when none is queued.
ThreadPacketSize(t) ==
  /\ thr[t].pc = "size"
  /\ \E hr \in HResults :
       LET next_packet_size == IF pending = <<>> THEN 0 ELSE pending[1].frames
       IN thr' = [thr EXCEPT ![t].pc =
                    IF hr = "S_OK" /\ next_packet_size > 0 THEN "getbuf"
                    ELSE "loop"]
  /\ UNCHANGED <<audio_bytes_, mutex>>
  /\ UNCHANGED ThreadFrame /\ UNCHANGED objVars /\ UNCHANGED devVars
  /\ UNCHANGED pullVars
  /\ UNCHANGED conv

\* ReleaseBuffer that never reaches the device: the packet stays retrieved.
ReleaseBufferNever(t, frames_read) ==
  UNCHANGED <<bufOwner, pending>>

\* ReleaseBuffer(frames_read) by thread t: the packet leaves the device.
ReleaseBuffer(t, frames_read) ==
  IF bufOwner = t
  THEN /\ bufOwner' = NoThread
       /\ pending' = IF frames_read > 0 /\ pending # <<>> THEN Tail(pending)
                     ELSE pending
  ELSE UNCHANGED <<bufOwner, pending>>

\* GetBuffer and what follows up to the lock, lines 365-394. GetBuffer fails
\* while an earlier GetBuffer is outstanding (AUDCLNT_E_OUT_OF_ORDER) or for
\* the device's own reasons; with nothing queued it succeeds with 0 frames.
ThreadGetBuffer(t) ==
  /\ thr[t].pc = "getbuf"
  /\ \E hr \in HResults :
       IF hr # "S_OK" \/ bufOwner # NoThread
       THEN /\ thr' = [thr EXCEPT ![t].pc = "size"]
            /\ UNCHANGED <<bufOwner, pending>>
       ELSE LET pk == IF pending = <<>> THEN [id |-> 0, frames |-> 0]
                      ELSE pending[1]
                n == PacketBytes[fmt, pk.frames]
            IN IF ~ptr["capture_format_"]
               THEN /\ thr' = [thr EXCEPT ![t].pc = "size"]
                    /\ pending' = IF pk.frames > 0 THEN Tail(pending) ELSE pending
                    /\ UNCHANGED bufOwner
               ELSE /\ thr' = [thr EXCEPT ![t] =
                                 [pc |-> IF n > 0 THEN "append" ELSE "release",
                                  pkt |-> pk.id, frames |-> pk.frames,
                                  outLen |-> n]]
                    /\ bufOwner' = t
                    /\ UNCHANGED pending
  /\ UNCHANGED <<audio_bytes_, mutex, hwRunning, evt, delivered>>
  /\ UNCHANGED ThreadFrame /\ UNCHANGED objVars /\ UNCHANGED pullVars
  /\ UNCHANGED conv

\* Lines 395-399: the lock is taken and every byte of outPcm16 is pushed.
ThreadAppend(t) ==
  /\ thr[t].pc = "append"
  /\ mutex = NoThread
  /\ mutex' = t
  /\ audio_bytes_' = PushBack(audio_bytes_, thr[t].pkt, 1, thr[t].outLen)
  /\ thr' = [thr EXCEPT ![t].pc = "evict"]
  /\ UNCHANGED ThreadFrame /\ UNCHANGED objVars /\ UNCHANGED devVars
  /\ UNCHANGED pullVars
  /\ UNCHANGED conv

\* Lines 403-406: the cap, then the lock_guard's scope ends.
ThreadEvict(t) ==
  /\ thr[t].pc = "evict"
  /\ audio_bytes_' = Evict(audio_bytes_)
  /\ mutex' = NoThread
  /\ thr' = [thr EXCEPT ![t].pc = "release"]
  /\ UNCHANGED ThreadFrame /\ UNCHANGED objVars /\ UNCHANGED devVars
  /\ UNCHANGED pullVars
  /\ UNCHANGED conv

\* Line 409, and back to the inner loop's test.
ThreadRelease(t) ==
  /\ thr[t].pc = "release"
  /\ ReleaseBuffer(t, thr[t].frames)
  /\ thr' = [thr EXCEPT ![t] = [IdleThread EXCEPT !.pc = "size"]]
  /\ UNCHANGED <<audio_bytes_, mutex, hwRunning, evt, delivered>>
  /\ UNCHANGED ThreadFrame /\ UNCHANGED objVars /\ UNCHANGED pullVars
  /\ UNCHANGED conv

\* ----------------------------------------------------------- the callers
\* The newest byte of a non-empty run sequence.
LastByte(rs) == <<rs[Len(rs)][1], rs[Len(rs)][3]>>
FirstByte(rs) == <<rs[1][1], rs[1][2]>>

\* FrameOf without its pop_front: the bytes are copied and stay queued.
FrameOfNoPop(q, n) ==
  [out |-> Front(q, Min(n, RunsLen(q))), rest |-> q]

\* FrameOf with an off-by-one copy loop: one byte less is copied and popped.
FrameOfShort(q, n) ==
  LET available == RunsLen(q)
      to_copy == Min(n, available) - 1
  IN IF available = 0 THEN [out |-> <<>>, rest |-> q]
     ELSE [out |-> Front(q, to_copy), rest |-> PopFront(q, to_copy)]

\* What GetSystemAudioFrame(n) returns and leaves of deque q, lines 202-214.
FrameOf(q, n) ==
  LET available == RunsLen(q)
      to_copy == Min(n, available)
  IN IF available = 0 THEN [out |-> <<>>, rest |-> q]
     ELSE [out |-> Front(q, to_copy), rest |-> PopFront(q, to_copy)]

\* SystemAudioFrame with the binding layer's default (flutter_window.cpp:75-78)
\* in the place of the early return: 0 bytes asked means 1280.
SystemAudioFrameDefaulted(q, requested_bytes) ==
  FrameOf(q, IF requested_bytes = 0 THEN DefaultPull ELSE requested_bytes)

\* What GetSystemAudioFrame(requested_bytes) returns and leaves of deque q,
\* lines 195-214, the early return for 0 bytes included.
SystemAudioFrame(q, requested_bytes) ==
  IF requested_bytes = 0 THEN [out |-> <<>>, rest |-> q]
  ELSE FrameOf(q, requested_bytes)

\* GetSystemAudioFrame, lines 195-215: nothing is locked for 0 bytes;
\* otherwise the lock_guard holds frames_mutex_ for the whole call.
GetSystemAudioFrame ==
  /\ ctl # "destroyed"
  /\ pulls < MaxPulls
  /\ \E requested_bytes \in PullSizes :
       LET r == SystemAudioFrame(audio_bytes_, requested_bytes)
       IN /\ requested_bytes # 0 => mutex = NoThread
          /\ lastPull' = r.out
          /\ audio_bytes_' = r.rest
          /\ pulledHi' = IF r.out = <<>> THEN pulledHi ELSE LastByte(r.out)
  /\ prevHi' = pulledHi
  /\ pulls' = pulls + 1
  /\ UNCHANGED <<mutex, thr>>
  /\ UNCHANGED ThreadFrame /\ UNCHANGED objVars /\ UNCHANGED devVars
  /\ UNCHANGED conv

\* ------------------------------------------------------- specifications
ThreadStep(t) ==
  \/ ThreadCheck(t)
  \/ ThreadWait(t)
  \/ ThreadPacketSize(t)
  \/ ThreadGetBuffer(t)
  \/ ThreadAppend(t)
  \/ ThreadEvict(t)
  \/ ThreadRelease(t)

Next ==
  \/ StartSystemAudio
  \/ StartClient
  \/ StartJoin
  \/ StopSystemAudio
  \/ StopClient
  \/ StopJoin
  \/ Destructor
  \/ CleanupStop
  \/ CleanupWASAPI
  \/ DeviceDeliver
  \/ GetSystemAudioFrame
  \/ \E t \in Threads : ThreadStep(t)

Spec == Init /\ [][Next]_vars

\* Every thread that can run does run: each capture thread keeps taking
\* steps, and a caller inside StartSystemAudio, StopSystemAudio or the
\* destructor goes on to its next statement (a join once the thread is out).
ControllerStep ==
  StartClient \/ StartJoin \/ StopClient \/ StopJoin \/ CleanupStop \/ CleanupWASAPI

FairSpec ==
  /\ Spec
  /\ \A t \in Threads : WF_vars(ThreadStep(t))
  /\ WF_vars(ControllerStep)

\* -------------------------------------- one packet through the conversion
\* The packets of lines 365-392 that are followed sample by sample: the
\* descriptor, frames_read, the device's buffer and the SILENT flag.
ConvFormats ==
  { [tag |-> "float", sub |-> "none", bits |-> 32, nChannels |-> 2,
     nSamplesPerSec |-> 48000, nBlockAlign |-> 8],
    [tag |-> "extensible", sub |-> "float", bits |-> 32, nChannels |-> 1,
     nSamplesPerSec |-> 8000, nBlockAlign |-> 4],
    [tag |-> "pcm", sub |-> "none", bits |-> 16, nChannels |-> 2,
     nSamplesPerSec |-> 16000, nBlockAlign |-> 4],
    [tag |-> "extensible", sub |-> "pcm", bits |-> 16, nChannels |-> 1,
     nSamplesPerSec |-> 24000, nBlockAlign |-> 2],
    [tag |-> "pcm", sub |-> "none", bits |-> 24, nChannels |-> 1,
     nSamplesPerSec |-> 48000, nBlockAlign |-> 3],
    [tag |-> "extensible", sub |-> "other", bits |-> 32, nChannels |-> 2,
     nSamplesPerSec |-> 16000, nBlockAlign |-> 8],
    [tag |-> "float", sub |-> "none", bits |-> 32, nChannels |-> 0,
     nSamplesPerSec |-> 48000, nBlockAlign |-> 4],
    [tag |-> "float", sub |-> "none", bits |-> 32, nChannels |-> 1,
     nSamplesPerSec |-> 0, nBlockAlign |-> 4] }

\* The descriptors whose packets are followed by their sizes only.
SizeRates == {0, 19, 8000, 11025, 16000, 22050, 44056, 44100, 48000, 96000, 192000}
SizeFrames == {1, 2, 19, 441, 480, 1024, 5507, 105000}
SizeFormats ==
  { [tag |-> "float", sub |-> "none", bits |-> 32, nChannels |-> 1,
     nSamplesPerSec |-> r, nBlockAlign |-> 4] : r \in SizeRates }

FloatSamples == { <<-2, 1>>, <<-1, 2>>, <<1, 2>>, <<3, 2>> }
Pcm16Samples == { -32768, -1, 1, 32767 }

\* What a sample word of the buffer holds, and the word memset leaves.
WordsOf(f) == IF IsFloatFormat(f) THEN FloatSamples ELSE Pcm16Samples
ZeroWord(f) == IF IsFloatFormat(f) THEN <<0, 1>> ELSE 0

\* Sample words per frame.
FrameWords(f) == f.nBlockAlign \div (f.bits \div 8)

Buffers(f, frames) == [1..frames -> [1..FrameWords(f) -> WordsOf(f)]]

captureVars == <<is_capturing_, is_initialized_, ptr, held, fmt, capture_thread_,
                 audio_bytes_, mutex, thr, joined, hwRunning, pending, evt,
                 bufOwner, delivered, ctl, ret, startResult, initFailures,
                 lastPull, prevHi, pulledHi, pulls>>

\* A packet to follow sample by sample, or one to follow by its sizes.
ConvInit ==
  /\ Constructed
  /\ \/ \E f \in ConvFormats, n \in 0..MaxConvFrames :
          \E b \in Buffers(f, n), sl \in BOOLEAN :
            conv = [NoConv("packet", f, n) EXCEPT !.buffer = b, !.silent = sl]
     \/ \E f \in SizeFormats, n \in SizeFrames :
          conv = NoConv("sizing", f, n)

\* Lines 373-383: bytes_available, and raw from the buffer or from memset.
ConvPull ==
  /\ conv.stage = "packet"
  /\ LET bytes_available == conv.frames * conv.f.nBlockAlign
     IN IF bytes_available > 0
        THEN conv' = [conv EXCEPT
               !.stage = "raw",
               !.raw = IF conv.silent
                       THEN [i \in 1..conv.frames |->
                               [w \in 1..FrameWords(conv.f) |-> ZeroWord(conv.f)]]
                       ELSE conv.buffer]
        ELSE conv' = [conv EXCEPT !.stage = "done"]
  /\ UNCHANGED captureVars

\* Line 389.
ConvToMono ==
  /\ conv.stage = "raw"
  /\ LET r == ToMonoFloat(conv.f, conv.raw, conv.frames)
     IN conv' = [conv EXCEPT !.stage = "mono", !.ok = r.ok, !.mono = r.outMono]
  /\ UNCHANGED captureVars

\* Line 390.
ConvResample ==
  /\ conv.stage = "mono"
  /\ conv.ok
  /\ conv' = [conv EXCEPT
       !.stage = "resampled",
       !.mono16k = ResampleLinear(conv.mono, conv.f.nSamplesPerSec, TargetRate)]
  /\ UNCHANGED captureVars

\* Line 391.
ConvEncode ==
  /\ conv.stage = "resampled"
  /\ conv' = [conv EXCEPT !.stage = "done",
                          !.outPcm16 = MonoFloatToPcm16Bytes(conv.mono16k)]
  /\ UNCHANGED captureVars

\* Line 389 when ToMonoFloat returned false: outPcm16 stays empty.
ConvFail ==
  /\ conv.stage = "mono"
  /\ ~conv.ok
  /\ conv' = [conv EXCEPT !.stage = "done"]
  /\ UNCHANGED captureVars

\* Lines 373-392 by sizes.
ConvSizes ==
  /\ conv.stage = "sizing"
  /\ conv' = [conv EXCEPT !.stage = "sized",
                          !.outLen = OutPcm16Size(conv.f, conv.frames)]
  /\ UNCHANGED captureVars

ConvNext ==
  \/ ConvPull
  \/ ConvToMono
  \/ ConvResample
  \/ ConvEncode
  \/ ConvFail
  \/ ConvSizes

ConvSpec == ConvInit /\ [][ConvNext]_vars

\* ------------------------------------------------------------- the claims
\* The last n bytes of rs, counted from the tail.
RECURSIVE Newest(_, _)
Newest(rs, n) ==
  IF n <= 0 \/ rs = <<>> THEN <<>>
  ELSE LET k == Len(rs)
           w == rs[k][3] - rs[k][2] + 1
       IN IF n >= w THEN Newest(SubSeq(rs, 1, k - 1), n - w) \o <<rs[k]>>
          ELSE <<<<rs[k][1], rs[k][3] - n + 1, rs[k][3]>>>>

\* The bytes of rs are in strictly increasing delivery order.
Increasing(rs) ==
  \A i \in 1..Len(rs) :
    /\ rs[i][2] <= rs[i][3]
    /\ i < Len(rs) => Older(<<rs[i][1], rs[i][3]>>, <<rs[i + 1][1], rs[i + 1][2]>>)

\* C1: whenever frames_mutex_ is not held by a capture thread the deque holds
\* at most 64000 bytes, and no pull has been handed more than 64000 bytes:
\* callers never see the deque between an append and its eviction.
C1_BufferBounded ==
  /\ mutex = NoThread => RunsLen(audio_bytes_) <= Capacity
  /\ RunsLen(lastPull) <= Capacity

\* C1 witness: an append overflowed the deque, the eviction cut it back to
\* exactly 64000 bytes, and the lock is free again.
C1_Witness ==
  /\ mutex = NoThread
  /\ pulls = 0
  /\ RunsLen(audio_bytes_) = Capacity
  /\ FirstByte(audio_bytes_) # <<1, 1>>

\* C2: the append of a packet's bytes B to content Q makes the deque Q
\* followed by B in order, and the eviction that follows leaves exactly the
\* last min(64000, |Q| + |B|) bytes of it: only the oldest bytes are dropped.
C2_DropOldest ==
  [][\A t \in Threads :
       /\ (thr[t].pc = "append" /\ thr'[t].pc = "evict") =>
            /\ RunsLen(audio_bytes_') = RunsLen(audio_bytes_) + thr[t].outLen
            /\ Front(audio_bytes_', RunsLen(audio_bytes_)) = audio_bytes_
            /\ PopFront(audio_bytes_', RunsLen(audio_bytes_))
                 = <<<<thr[t].pkt, 1, thr[t].outLen>>>>
       /\ (thr[t].pc = "evict" /\ thr'[t].pc = "release") =>
            audio_bytes_' = Newest(audio_bytes_,
                                   Min(Capacity, RunsLen(audio_bytes_)))]_vars

\* C2 witness: 70000 bytes were appended to the empty deque in one packet and
\* exactly the last 64000 of them are left.
C2_Witness ==
  /\ mutex = NoThread
  /\ audio_bytes_ = <<<<1, 6001, 70000>>>>
  /\ \E t \in Threads : thr[t].pc = "release" /\ thr[t].outLen = 70000

\* C3: the deque holds its bytes in hardware delivery order; every pull
\* returns bytes in that order, all of them newer than every byte returned
\* before and older than every byte it leaves behind, so the pulls together
\* are a subsequence of the delivered stream and return no byte twice.
C3_Fifo ==
  /\ Increasing(audio_bytes_)
  /\ Increasing(lastPull)
  /\ lastPull # <<>> => Older(prevHi, FirstByte(lastPull))
  /\ audio_bytes_ # <<>> => Older(pulledHi, FirstByte(audio_bytes_))

\* C3 witness: a second non-empty pull that spans two packets.
C3_Witness ==
  /\ pulls = 2
  /\ prevHi # <<0, 0>>
  /\ Len(lastPull) = 2

\* C4: at every moment at most one capture thread of the session is alive.
C4_OneCaptureThread == Cardinality(Alive) <= 1

\* C5: StopSystemAudio stops the hardware stream only once the capture
\* thread it joins has left CaptureThreadProc: no capture thread is alive
\* when IAudioClient::Stop is called.
C5_StopAfterJoin ==
  [][(ctl = "stop_client" /\ hwRunning /\ ~hwRunning') => Alive = {}]_vars

\* C6: when StartSystemAudio has returned false because the stream did not
\* start, the session is not capturing and every capture thread it ever
\* spawned has terminated and been joined.
C6_PartialStartRollback ==
  (ctl = "idle" /\ startResult = "client_failed") =>
     /\ ~is_capturing_
     /\ Alive = {}
     /\ Spawned \subseteq joined

\* C7: a caller's StopSystemAudio that found the session capturing eventually
\* returns, whatever the device does with its finitely many packets.
C7_StopReturns ==
  (ctl = "stop_client" /\ ret = "idle") ~> (ctl = "idle")

\* C8: a caller operates on the device handles (IAudioClient::Start,
\* IAudioClient::Stop, the releases of CleanupWASAPI) only while no capture
\* thread is alive.
C8_HandlesNotShared ==
  [][((ctl = "start_client" /\ ctl' # ctl)
        \/ (ctl = "stop_client" /\ ptr["audio_client_"] /\ ctl' # ctl)
        \/ (ctl = "cleanup_release" /\ ctl' # ctl))
      => Alive = {}]_vars

\* C9: when the destructor releases the device resources every capture
\* thread ever spawned has terminated and been joined, and once it is done
\* no acquired resource is left unreleased.
C9_DestructionReleasesAll ==
  /\ ctl \in {"cleanup_release", "destroyed"} =>
       Alive = {} /\ Spawned \subseteq joined
  /\ ctl = "destroyed" => \A k \in Kinds : held[k] = 0

\* C10: no device resource is acquired again while an earlier acquisition of
\* it is still held.
C10_AcquiredOnce == \A k \in Kinds : held[k] <= 1

\* C11: while the latest StartSystemAudio is one that returned false out of
\* InitializeWASAPI, no capture thread exists, the session is not capturing,
\* the stream is not started and is_initialized_ is still false, so the next
\* start runs InitializeWASAPI again; and is_initialized_ is only ever set
\* when every acquisition step succeeded.
C11_InitFailureLeavesUninitialized ==
  /\ startResult = "init_failed" =>
       /\ ~is_initialized_
       /\ ~is_capturing_
       /\ ~hwRunning
       /\ Spawned = {}
       /\ capture_thread_ = NoThread
  /\ (is_initialized_ /\ ctl # "destroyed") => \A k \in Kinds : ptr[k]

\* C11 witness: a start failed in InitializeWASAPI, the next start ran it
\* again and failed again.
C11_Witness ==
  /\ startResult = "init_failed"
  /\ initFailures >= 2
  /\ ctl = "idle"

\* C12: a StopSystemAudio entered while is_capturing_ is false (a caller's,
\* the destructor's, or the one CleanupWASAPI makes right after it) goes
\* straight back to its caller: it never reaches IAudioClient::Stop or a
\* join and leaves the flags, the handles, the thread pointer, the stream,
\* the device queue and the deque as they were. And no step of any
\* StopSystemAudio, capturing or not, releases or nulls a device resource or
\* clears is_initialized_.
C12_StopIdempotent ==
  [][/\ (/\ ~is_capturing_
          /\ ctl \in {"idle", "dtor_cleanup"}
          /\ ctl' # "start_client"
          /\ UNCHANGED <<thr, pulls, delivered, initFailures, startResult>>)
        => /\ ctl' \notin {"stop_client", "stop_join"}
           /\ ctl' \in {ctl, "dtor_cleanup", "cleanup_release"}
           /\ UNCHANGED <<is_capturing_, is_initialized_, ptr, held, fmt,
                          capture_thread_, joined, hwRunning, pending, evt,
                          bufOwner, audio_bytes_, mutex>>
     /\ (ctl \in {"stop_client", "stop_join"} \/ ctl' = "stop_client")
        => UNCHANGED <<is_initialized_, ptr, held, fmt>>]_vars

\* C12 witness: a started session was stopped, StopSystemAudio was entered
\* again twice on the way into CleanupWASAPI, and every resource is still
\* held with the session initialized.
C12_Witness ==
  /\ ctl = "cleanup_release"
  /\ startResult = "true"
  /\ Spawned # {} /\ joined = Spawned
  /\ ~is_capturing_ /\ ~hwRunning
  /\ is_initialized_
  /\ \A k \in Kinds : ptr[k] /\ held[k] >= 1

\* Run sequence a followed by run sequence b, byte for byte.
RECURSIVE JoinRuns(_, _)
JoinRuns(a, b) ==
  IF b = <<>> THEN a
  ELSE JoinRuns(PushBack(a, b[1][1], b[1][2], b[1][3]), Tail(b))

C15_PacketReleasedOnce ==
  /\ \A t \in Threads :
       /\ bufOwner = t <=> thr[t].pc \in {"append", "evict", "release"}
       /\ (bufOwner = t /\ thr[t].frames > 0) =>
            pending # <<>> /\ pending[1].id = thr[t].pkt
  /\ \A i \in 1..Len(audio_bytes_), j \in 1..Len(pending) :
       pending[j].id = audio_bytes_[i][1] =>
         bufOwner # NoThread /\ thr[bufOwner].pkt = pending[j].id

\* C15 witness: two packets were retrieved one after the other, the bytes of
\* both are in the deque, and both have been released: the device queue is
\* empty and no buffer is outstanding.
C15_Witness ==
  /\ delivered >= 2
  /\ pending = <<>>
  /\ bufOwner = NoThread
  /\ audio_bytes_ # <<>>
  /\ FirstByte(audio_bytes_)[1] = 1
  /\ LastByte(audio_bytes_)[1] = 2

\* C19: whenever the caller is in none of StartSystemAudio, StopSystemAudio
\* and the destructor, is_capturing_ is set exactly when a capture thread is
\* alive and exactly when the hardware stream is started; in particular,
\* after a start that returned false and after a stop, no capture thread is
\* alive and the stream is not started.
C19_FlagThreadStreamAgree ==
  ctl = "idle" =>
    /\ is_capturing_ <=> Alive # {}
    /\ is_capturing_ <=> hwRunning
    /\ startResult \in {"init_failed", "no_event", "client_failed"} =>
         Alive = {} /\ ~hwRunning

\* C20: with pulls that ask for even byte counts only (PullSizes), the deque
\* always holds whole samples: every run of it starts on the low byte of a
\* sample (an odd offset of its packet's output) and ends on a high byte, so
\* its length is even and its head is a low byte, before and after every
\* append, eviction and pull; and every pull returns whole samples.
C20_SampleAligned ==
  /\ \A n \in PullSizes : n % 2 = 0
  /\ RunsLen(audio_bytes_) % 2 = 0
  /\ RunsLen(lastPull) % 2 = 0
  /\ \A i \in 1..Len(audio_bytes_) :
       audio_bytes_[i][2] % 2 = 1 /\ audio_bytes_[i][3] % 2 = 0
  /\ \A i \in 1..Len(lastPull) :
       lastPull[i][2] % 2 = 1 /\ lastPull[i][3] % 2 = 0
  /\ \A t \in Threads : thr[t].outLen % 2 = 0

\* C20 witness: a packet was appended, the eviction cut bytes off the head,
\* a pull took more, and bytes are left in the deque.
C20_Witness ==
  /\ mutex = NoThread
  /\ pulls >= 1
  /\ lastPull # <<>>
  /\ audio_bytes_ # <<>>
  /\ FirstByte(audio_bytes_)[2] > 6001

\* A descriptor that is neither 32-bit float nor 16-bit integer PCM, bare or
\* in the extensible container.
Unrecognised(f) ==
  /\ ~(f.bits = 32 /\ (f.tag = "float" \/ (f.tag = "extensible" /\ f.sub = "float")))
  /\ ~(f.bits = 16 /\ (f.tag = "pcm" \/ (f.tag = "extensible" /\ f.sub = "pcm")))

\* The packet has been through ToMonoFloat.
Normalised == conv.stage \in {"mono", "resampled", "done"} /\ conv.frames > 0

AllZeroSamples(xs) == \A i \in 1..Len(xs) : xs[i] = <<0, 1>>
AllZeroBytes(bs) == \A i \in 1..Len(bs) : bs[i] = 0

\* C16 as stated: for a packet of F > 0 frames whose descriptor is
\* unrecognised or whose conversion fails (channel count 0), the normaliser
\* yields F zero samples and every byte appended for the packet is zero.
C16_SilenceForEveryFailure ==
  (Normalised /\ (Unrecognised(conv.f) \/ conv.f.nChannels = 0))
    => /\ Len(conv.mono) = conv.frames
       /\ AllZeroSamples(conv.mono)
       /\ AllZeroBytes(conv.outPcm16)

\* C16, amended: for a packet of F > 0 frames, an unrecognised descriptor
\* with at least one channel makes the normaliser yield F zero samples and
\* every byte appended for the packet is zero (and some are appended when
\* the rate is not 0); a channel count of 0 makes the normaliser fail with
\* no samples, and nothing is appended.
C16_SilenceOrNothing ==
  Normalised =>
    /\ conv.f.nChannels = 0 =>
          ~conv.ok /\ conv.mono = <<>> /\ conv.mono16k = <<>> /\ conv.outPcm16 = <<>>
    /\ (conv.f.nChannels >= 1 /\ Unrecognised(conv.f)) =>
          /\ conv.ok
          /\ Len(conv.mono) = conv.frames
          /\ AllZeroSamples(conv.mono)
          /\ AllZeroBytes(conv.outPcm16)
          /\ (conv.stage = "done" /\ conv.f.nSamplesPerSec # 0) => conv.outPcm16 # <<>>

\* A packet of an unrecognised format whose buffer held non-zero words has
\* been encoded.
C16_Witness ==
  /\ conv.stage = "done"
  /\ Unrecognised(conv.f)
  /\ conv.f.nChannels >= 1
  /\ ~conv.silent
  /\ conv.outPcm16 # <<>>

\* The byte count the chain is to append for F frames at rate R.
ExpectedBytes(F, R) ==
  IF R = 0 THEN 0
  ELSE IF R = TargetRate THEN 2 * F
  ELSE 2 * Max(1, (F * TargetRate) \div R)

\* C17: for a packet of F > 0 frames with channel count >= 1 the chain
\* appends 2*F bytes when R = 16000, 2*max(1, floor(F*16000/R)) bytes for
\* any other R > 0, and nothing when R = 0.
C17_AppendedSize ==
  /\ (conv.stage = "sized" /\ conv.frames > 0 /\ conv.f.nChannels >= 1)
       => conv.outLen = ExpectedBytes(conv.frames, conv.f.nSamplesPerSec)
  /\ (conv.stage = "done" /\ conv.frames > 0 /\ conv.f.nChannels >= 1)
       => Len(conv.outPcm16) = ExpectedBytes(conv.frames, conv.f.nSamplesPerSec)

\* The 16-bit value that the two bytes of output sample i spell.
Decoded(bs, i) ==
  LET v == bs[2 * i - 1] + 256 * bs[2 * i]
  IN IF v >= 32768 THEN v - 65536 ELSE v

\* C18: the encoder is a clamped, order-preserving quantiser: the bytes of
\* every sample spell, least-significant byte first, a value within
\* [-32768, 32767]; a sample >= 1.0 gives the bytes 0xFF, 0x7F; and of two
\* samples a < b the value encoded for a is <= the one encoded for b.
C18_EncodeClampedMonotone ==
  conv.stage = "done" =>
    LET s == conv.mono16k
        b == conv.outPcm16
    IN /\ Len(b) = 2 * Len(s)
       /\ \A i \in 1..Len(s) :
            /\ b[2 * i - 1] \in 0..255 /\ b[2 * i] \in 0..255
            /\ FloatToPcm16(s[i]) \in -32768..32767
            /\ Decoded(b, i) = FloatToPcm16(s[i])
            /\ ~FracLess(s[i], <<1, 1>>) => (b[2 * i - 1] = 255 /\ b[2 * i] = 127)
       /\ \A i, j \in 1..Len(s) :
            FracLess(s[i], s[j]) => Decoded(b, i) <= Decoded(b, j)

\* Two samples a < b have been encoded, a to a negative value and b, which
\* is 1.0 or more, to 32767.
C18_Witness ==
  /\ conv.stage = "done"
  /\ \E i, j \in 1..Len(conv.mono16k) :
       /\ FracLess(conv.mono16k[i], conv.mono16k[j])
       /\ ~FracLess(conv.mono16k[j], <<1, 1>>)
       /\ Decoded(conv.outPcm16, i) < 0
       /\ Decoded(conv.outPcm16, j) = 32767

====
